---- MODULE Spec2Model ----
(***************************************************************************)
(* A model of ecs.Manager (src/ecs/Manager.py): the entity table, the      *)
(* component-type index, the pending-deletion set, the identifier counter  *)
(* and the system registry, with one action per mutating method.  The      *)
(* read-only methods are operators over the state.                         *)
(***************************************************************************)
EXTENDS Integers, Sequences, FiniteSets, TLC

\* ------------------------------------------------------------------ bounds

\* Entity identifiers the model passes to the Manager are 1..MaxId, and
\* new_entity is called only while the counter is below MaxId.
MaxId == 2
\* Components passed to one new_entity call.
MaxArgs == 2
\* Registered systems (length of the registry).
MaxSystems == 3

\* ------------------------------------------------------------------ values

Ids == 1..MaxId

\* Component classes of the application.
Types == {"A", "B"}

\* The component instances the application made: two of class "A", one of
\* class "B".  An instance is its class and a serial number.
Components == {<<"A", 1>>, <<"A", 2>>, <<"B", 1>>}

\* type(component_instance)
TypeOf(c) == c[1]

\* System instances: two of class "X", one of class "Y"; "obj" is an object
\* whose class does not derive from SystemTemplate.
SystemObjects == {"x1", "x2", "y1"}
Objects == SystemObjects \cup {"obj"}
SystemTypes == {"X", "Y"}

\* type(system)
SysTypeOf(s) == IF s \in {"x1", "x2"} THEN "X" ELSE IF s = "y1" THEN "Y" ELSE "object"

\* issubclass(system_instance.__class__, ecs.SystemTemplate)
IsSystem(s) == SysTypeOf(s) \in SystemTypes

\* Arguments handed to process(*args).
Args == {"dt1", "dt2"}

None == "None"
Self == "self"

\* system.Manager of a system that no Manager has registered yet.
InitialManager == None

\* ------------------------------------------------------------------ dicts

\* d[k] = v
Put(d, k, v) == [x \in (DOMAIN d) \cup {k} |-> IF x = k THEN v ELSE d[x]]

\* del d[k]
Del(d, k) == [x \in (DOMAIN d) \ {k} |-> d[x]]

\* {}
EmptyDict == [x \in {} |-> None]

\* The orders in which a set can be iterated.
Orders(S) == {o \in [1..Cardinality(S) -> S] : \A i, j \in 1..Cardinality(S) : o[i] = o[j] => i = j}

\* ------------------------------------------------------------------ state

VARIABLES
    systems,          \* self._systems: the registry, a list of system instances
    sysManager,       \* system.Manager of every object: None or this Manager
    next_entity_id,   \* self._next_entity_id
    components,       \* self._components: component type -> set of entities
    entities,         \* self._entities: entity -> (component type -> instance)
    dead_entities,    \* self._dead_entities
    op,               \* the method called last
    err,              \* the last call raised (KeyError or AssertionError)
    ret,              \* what the last call returned: <<id>> from new_entity, <<>> otherwise
    calls,            \* system.process calls made by the last Manager.process
    issued,           \* identifiers new_entity returned since the last clear_database
    destroyed,        \* identifiers destroyed since the last clear_database
    generator,        \* the generator a get_component call returned and the host has
                      \* not consumed yet: <<>>, or <<g>> with g.component_type the
                      \* argument and g.index the type's index set when it was called
    yielded,          \* what the generator consumed by the last call yielded, whether
                      \* it raised, and the index set of its type when it was made
    overwrote         \* what the last call found in place and replaced or deleted:
                      \* "instance" for an instance add_component_to_entity displaced
                      \* or remove_component_from_entity deleted, "row" for a row
                      \* deleted with it, and the names of the fields clear_database
                      \* found non-empty

vars == <<systems, sysManager, next_entity_id, components, entities,
          dead_entities, op, err, ret, calls, issued, destroyed, generator,
          yielded, overwrote>>

db == <<next_entity_id, components, entities, dead_entities>>
registry == <<systems, sysManager>>

\* Nothing yielded: the last call did not consume a generator.
NoYield == [raised |-> FALSE, value |-> <<>>, at_call |-> {}]

Init ==
    /\ systems = <<>>
    /\ sysManager = [s \in Objects |-> InitialManager]
    /\ next_entity_id = 0
    /\ components = EmptyDict
    /\ entities = EmptyDict
    /\ dead_entities = {}
    /\ op = "__init__"
    /\ err = FALSE
    /\ ret = <<>>
    /\ calls = <<>>
    /\ issued = <<>>
    /\ destroyed = {}
    /\ generator = <<>>
    /\ yielded = NoYield
    /\ overwrote = {}

\* The fields of the Manager that clear_database assigns.
Fields == {"_next_entity_id", "_components", "_entities", "_dead_entities"}

\* The field holds something other than what __init__ gave it.
NonEmpty(f) ==
    IF f = "_next_entity_id" THEN next_entity_id # 0
    ELSE IF f = "_components" THEN DOMAIN components # {}
    ELSE IF f = "_entities" THEN DOMAIN entities # {}
    ELSE dead_entities # {}

\* ------------------------------------------------------------------ queries

\* A call that returned v, and a call that raised KeyError.
Returned(v) == [raised |-> FALSE, value |-> v]
Raised(v) == [raised |-> TRUE, value |-> v]

\* Manager.has_component
has_component(entity, component_type) ==
    IF entity \notin DOMAIN entities THEN Raised(FALSE)
    ELSE Returned(component_type \in DOMAIN entities[entity])

\* Manager.get_component_from_entity
get_component_from_entity(component_type, entity) ==
    IF entity \notin DOMAIN entities THEN Raised(<<>>)
    ELSE IF component_type \notin DOMAIN entities[entity] THEN Raised(<<>>)
    ELSE Returned(entities[entity][component_type])

\* Manager.get_all_components_from_entity, as the set of the tuple's members
get_all_components_from_entity(entity) ==
    IF entity \notin DOMAIN entities THEN Raised({})
    ELSE Returned({entities[entity][t] : t \in DOMAIN entities[entity]})

\* The entity holds a component of the type in its table row.
RowHas(ents, entity, component_type) ==
    entity \in DOMAIN ents /\ component_type \in DOMAIN ents[entity]

\* Manager.get_component, consumed at once, iterating the index set in the
\* order o: the pairs yielded and whether the generator raised KeyError
\* (entity_db[entity][component_type] of an entity whose row lacks the type).
get_component_in(component_type, o) ==
    LET bad == {i \in 1..Len(o) : ~RowHas(entities, o[i], component_type)}
        n == IF bad = {} THEN Len(o)
             ELSE (CHOOSE i \in bad : \A j \in bad : i <= j) - 1
    IN [raised |-> bad # {},
        value |-> [i \in 1..n |-> <<o[i], entities[o[i]][component_type]>>]]

\* Manager.get_component: the possible results, one per iteration order of
\* the index set; self._components.get(component_type, []) of a type with
\* no index set is the empty list.
get_component(component_type) ==
    IF component_type \notin DOMAIN components
    THEN {Returned(<<>>)}
    ELSE {get_component_in(component_type, o) : o \in Orders(components[component_type])}

\* set.intersection(*[component_db[t] for t in component_types])
Intersection(component_types) ==
    {e \in components[component_types[1]] :
        \A i \in 1..Len(component_types) : e \in components[component_types[i]]}

\* Manager.get_components, consumed at once, iterating the intersection in
\* the order o: a KeyError raised while building an entity's component list
\* is caught by the generator's except clause and ends the sequence.
get_components_in(component_types, o) ==
    LET bad == {i \in 1..Len(o) :
                   \E k \in 1..Len(component_types) :
                       ~RowHas(entities, o[i], component_types[k])}
        n == IF bad = {} THEN Len(o)
             ELSE (CHOOSE i \in bad : \A j \in bad : i <= j) - 1
    IN [i \in 1..n |->
           <<o[i], [k \in 1..Len(component_types) |-> entities[o[i]][component_types[k]]]>>]

\* Manager.get_components: the possible yielded sequences; a requested type
\* with no index set raises KeyError inside the try block, which yields
\* nothing.
get_components(component_types) ==
    IF \E i \in 1..Len(component_types) : component_types[i] \notin DOMAIN components
    THEN {<<>>}
    ELSE {get_components_in(component_types, o) : o \in Orders(Intersection(component_types))}

\* ------------------------------------------------------------------ helpers

\* The entity's row holds another instance of the component's type, which
\* self._entities[entity][component_type] = component_instance replaces.
Displaces(ents, component_instance, entity) ==
    /\ RowHas(ents, entity, TypeOf(component_instance))
    /\ ents[entity][TypeOf(component_instance)] # component_instance

\* add_component_to_entity with setdefault in place of the assignment: an
\* instance already held for the type stays.
AddComponentKeepingFirst(comps, ents, component_instance, entity) ==
    LET component_type == TypeOf(component_instance)
        comps1 == IF component_type \notin DOMAIN comps
                  THEN Put(comps, component_type, {}) ELSE comps
        comps2 == Put(comps1, component_type, comps1[component_type] \cup {entity})
        ents1 == IF entity \notin DOMAIN ents THEN Put(ents, entity, EmptyDict) ELSE ents
    IN [components |-> comps2,
        entities |-> IF component_type \in DOMAIN ents1[entity] THEN ents1
                     ELSE Put(ents1, entity,
                              Put(ents1[entity], component_type, component_instance))]

\* Manager.add_component_to_entity on the pair (index, table).
AddComponent(comps, ents, component_instance, entity) ==
    LET component_type == TypeOf(component_instance)
        comps1 == IF component_type \notin DOMAIN comps
                  THEN Put(comps, component_type, {}) ELSE comps
        comps2 == Put(comps1, component_type, comps1[component_type] \cup {entity})
        ents1 == IF entity \notin DOMAIN ents THEN Put(ents, entity, EmptyDict) ELSE ents
    IN [components |-> comps2,
        entities |-> Put(ents1, entity, Put(ents1[entity], component_type, component_instance))]

\* The loop of new_entity: add_component_to_entity for each component in turn.
RECURSIVE AddAll(_, _, _, _)
AddAll(comps, ents, cs, entity) ==
    IF cs = <<>> THEN [components |-> comps, entities |-> ents]
    ELSE LET r == AddComponent(comps, ents, Head(cs), entity)
         IN AddAll(r.components, r.entities, Tail(cs), entity)

\* self._components[t].discard(entity), then del self._components[t] when
\* the set is left empty.
Discard(comps, component_type, entity) ==
    IF comps[component_type] \ {entity} = {} THEN Del(comps, component_type)
    ELSE Put(comps, component_type, comps[component_type] \ {entity})

\* The loop of remove_entity(immediate=True) over the row's types in the
\* order o; self._components[component_type] raises KeyError for a type with
\* no index set, leaving what was discarded before.
RECURSIVE DiscardAll(_, _, _)
DiscardAll(comps, o, entity) ==
    IF o = <<>> THEN [components |-> comps, err |-> FALSE]
    ELSE IF Head(o) \notin DOMAIN comps THEN [components |-> comps, err |-> TRUE]
    ELSE DiscardAll(Discard(comps, Head(o), entity), Tail(o), entity)

\* remove_entity(entity, immediate=True) on the pair (index, table): the
\* possible outcomes, one per iteration order of the row.
RemoveImmediate(comps, ents, entity) ==
    IF entity \notin DOMAIN ents
    THEN {[components |-> comps, entities |-> ents, err |-> TRUE]}
    ELSE {LET r == DiscardAll(comps, o, entity)
          IN IF r.err
             THEN [components |-> r.components, entities |-> ents, err |-> TRUE]
             ELSE [components |-> r.components, entities |-> Del(ents, entity), err |-> FALSE]
          : o \in Orders(DOMAIN ents[entity])}

\* The reconciliation loop of process over the pending-deletion set in the
\* order o: the first remove_entity that raises ends the loop.
RECURSIVE Reconcile(_, _, _)
Reconcile(comps, ents, o) ==
    IF o = <<>> THEN {[components |-> comps, entities |-> ents, err |-> FALSE]}
    ELSE UNION {IF r.err THEN {r} ELSE Reconcile(r.components, r.entities, Tail(o))
                : r \in RemoveImmediate(comps, ents, Head(o))}

\* The dispatch loop of process: system.process(*args) for each system of
\* the registry in turn.
Dispatch(syss, args) == [i \in 1..Len(syss) |-> <<syss[i], args>>]

\* An allocator that hands a freed identifier out again: the lowest
\* identifier without a table row.
NextIdReusing ==
    IF \E i \in Ids : i \notin DOMAIN entities
    THEN CHOOSE i \in Ids : i \notin DOMAIN entities /\ \A j \in 1..(i - 1) : j \in DOMAIN entities
    ELSE next_entity_id + 1

\* The identifier new_entity hands out: self._next_entity_id += 1.
NextId == next_entity_id + 1

\* list.remove(x): drops the first element equal to x.
ListRemove(l, x) ==
    LET first == CHOOSE i \in 1..Len(l) : l[i] = x /\ \A j \in 1..(i - 1) : l[j] # x
    IN [i \in 1..(Len(l) - 1) |-> IF i < first THEN l[i] ELSE l[i + 1]]

\* The loop of remove_system: a for loop over the list being mutated visits
\* position i of the list as it is when the loop gets there.
RECURSIVE RemoveLoop(_, _, _, _)
RemoveLoop(syss, mgr, system_type, i) ==
    IF i > Len(syss) THEN [systems |-> syss, sysManager |-> mgr]
    ELSE IF SysTypeOf(syss[i]) = system_type
         THEN RemoveLoop(ListRemove(syss, syss[i]),
                         [mgr EXCEPT ![syss[i]] = None], system_type, i + 1)
         ELSE RemoveLoop(syss, mgr, system_type, i + 1)

\* ------------------------------------------------------------------ actions

\* Sequences of at most MaxArgs components drawn from cs: the *components
\* of new_entity.
ComponentLists(cs) == UNION {[1..n -> cs] : n \in 0..MaxArgs}

\* clear_database without line 26: the tables are emptied and the counter
\* keeps counting.
clear_database_keeping_counter ==
    /\ op' = "clear_database"
    /\ components' = EmptyDict
    /\ entities' = EmptyDict
    /\ dead_entities' = {}
    /\ err' = FALSE /\ ret' = <<>> /\ calls' = <<>>
    /\ issued' = <<>> /\ destroyed' = {}
    /\ overwrote' = {f \in Fields : NonEmpty(f)}
    /\ yielded' = NoYield
    /\ UNCHANGED <<next_entity_id, registry, generator>>

\* Manager.clear_database
clear_database ==
    /\ op' = "clear_database"
    /\ components' = EmptyDict
    /\ entities' = EmptyDict
    /\ dead_entities' = {}
    /\ next_entity_id' = 0
    /\ err' = FALSE /\ ret' = <<>> /\ calls' = <<>>
    /\ issued' = <<>> /\ destroyed' = {}
    /\ overwrote' = {f \in Fields : NonEmpty(f)}
    /\ yielded' = NoYield
    /\ UNCHANGED <<registry, generator>>

\* Manager.add_system
add_system(system_instance) ==
    /\ op' = "add_system"
    /\ Len(systems) < MaxSystems
    /\ IF ~IsSystem(system_instance)
       THEN /\ err' = TRUE
            /\ UNCHANGED registry
       ELSE /\ err' = FALSE
            /\ sysManager' = [sysManager EXCEPT ![system_instance] = Self]
            /\ systems' = Append(systems, system_instance)
    /\ ret' = <<>> /\ calls' = <<>> /\ overwrote' = {}
    /\ yielded' = NoYield
    /\ UNCHANGED <<db, issued, destroyed, generator>>

\* Manager.remove_system
remove_system(system_type) ==
    /\ op' = "remove_system"
    /\ LET r == RemoveLoop(systems, sysManager, system_type, 1)
       IN /\ systems' = r.systems
          /\ sysManager' = r.sysManager
    /\ err' = FALSE /\ ret' = <<>> /\ calls' = <<>> /\ overwrote' = {}
    /\ yielded' = NoYield
    /\ UNCHANGED <<db, issued, destroyed, generator>>

\* Manager.new_entity
new_entity(cs) ==
    /\ op' = "new_entity"
    /\ next_entity_id < MaxId
    /\ LET id == NextId
           r == AddAll(components, Put(entities, id, EmptyDict), cs, id)
       IN /\ next_entity_id' = id
          /\ components' = r.components
          /\ entities' = r.entities
          /\ ret' = <<id>>
          /\ issued' = Append(issued, id)
    /\ err' = FALSE /\ calls' = <<>> /\ overwrote' = {}
    /\ yielded' = NoYield
    /\ UNCHANGED <<dead_entities, registry, destroyed, generator>>

\* Manager.remove_entity
remove_entity(entity, immediate) ==
    /\ op' = "remove_entity"
    /\ IF immediate
       THEN \E r \in RemoveImmediate(components, entities, entity) :
               /\ components' = r.components
               /\ entities' = r.entities
               /\ err' = r.err
               /\ destroyed' = destroyed \cup ((DOMAIN entities) \ (DOMAIN r.entities))
               /\ UNCHANGED dead_entities
       ELSE /\ dead_entities' = dead_entities \cup {entity}
            /\ err' = FALSE
            /\ UNCHANGED <<components, entities, destroyed>>
    /\ ret' = <<>> /\ calls' = <<>> /\ overwrote' = {}
    /\ yielded' = NoYield
    /\ UNCHANGED <<next_entity_id, registry, issued, generator>>

\* Manager.add_component_to_entity
add_component_to_entity(component_instance, entity) ==
    /\ op' = "add_component_to_entity"
    /\ LET r == AddComponent(components, entities, component_instance, entity)
       IN /\ components' = r.components
          /\ entities' = r.entities
    /\ overwrote' = IF Displaces(entities, component_instance, entity)
                    THEN {"instance"} ELSE {}
    /\ err' = FALSE /\ ret' = <<>> /\ calls' = <<>>
    /\ yielded' = NoYield
    /\ UNCHANGED <<next_entity_id, dead_entities, registry, issued, destroyed, generator>>

\* remove_component_from_entity without lines 140-142: the index forgets the
\* entity and the row keeps the instance.
remove_component_from_index(component_type, entity) ==
    /\ op' = "remove_component_from_entity"
    /\ IF component_type \notin DOMAIN components
       THEN /\ err' = TRUE
            /\ UNCHANGED components
       ELSE /\ components' = Discard(components, component_type, entity)
            /\ err' = ~RowHas(entities, entity, component_type)
    /\ overwrote' = {}
    /\ ret' = <<>> /\ calls' = <<>>
    /\ yielded' = NoYield
    /\ UNCHANGED <<entities, next_entity_id, dead_entities, registry, issued, destroyed, generator>>

\* Manager.remove_component_from_entity
remove_component_from_entity(component_type, entity) ==
    /\ op' = "remove_component_from_entity"
    /\ IF component_type \notin DOMAIN components
       THEN /\ err' = TRUE
            /\ UNCHANGED <<components, entities>>
       ELSE /\ components' = Discard(components, component_type, entity)
            /\ IF ~RowHas(entities, entity, component_type)
               THEN /\ err' = TRUE
                    /\ UNCHANGED entities
               ELSE /\ err' = FALSE
                    /\ entities' =
                          IF DOMAIN entities[entity] = {component_type}
                          THEN Del(entities, entity)
                          ELSE Put(entities, entity, Del(entities[entity], component_type))
    /\ overwrote' = IF err' THEN {}
                    ELSE IF DOMAIN entities[entity] = {component_type}
                         THEN {"instance", "row"} ELSE {"instance"}
    /\ ret' = <<>> /\ calls' = <<>>
    /\ yielded' = NoYield
    /\ UNCHANGED <<next_entity_id, dead_entities, registry, issued, destroyed, generator>>

\* Manager.process
process(args) ==
    /\ op' = "process"
    /\ IF dead_entities # {}
       THEN \E o \in Orders(dead_entities) :
            \E r \in Reconcile(components, entities, o) :
               /\ components' = r.components
               /\ entities' = r.entities
               /\ destroyed' = destroyed \cup ((DOMAIN entities) \ (DOMAIN r.entities))
               /\ err' = r.err
               /\ dead_entities' = IF r.err THEN dead_entities ELSE {}
               /\ calls' = IF r.err THEN <<>> ELSE Dispatch(systems, args)
       ELSE /\ err' = FALSE
            /\ calls' = Dispatch(systems, args)
            /\ UNCHANGED <<components, entities, dead_entities, destroyed>>
    /\ ret' = <<>> /\ overwrote' = {}
    /\ yielded' = NoYield
    /\ UNCHANGED <<next_entity_id, registry, issued, generator>>

\* Manager.get_component called by the host: calling a generator function
\* runs none of its body, so the call reads nothing of the Manager.  The host
\* holds one unconsumed generator at a time.
get_component_call(component_type) ==
    /\ op' = "get_component"
    /\ generator = <<>>
    /\ generator' = <<[component_type |-> component_type,
                       index |-> IF component_type \in DOMAIN components
                                 THEN components[component_type] ELSE {}]>>
    /\ err' = FALSE /\ ret' = <<>> /\ calls' = <<>> /\ overwrote' = {}
    /\ yielded' = NoYield
    /\ UNCHANGED <<db, registry, issued, destroyed>>

\* A get_component that copies the index set when it is called and loops
\* over the copy when consumed.
list_call_time_index ==
    /\ op' = "list"
    /\ generator # <<>>
    /\ \E o \in Orders(generator[1].index) :
          LET r == get_component_in(generator[1].component_type, o)
          IN /\ yielded' = [raised |-> r.raised, value |-> r.value,
                          at_call |-> generator[1].index]
             /\ err' = r.raised
    /\ generator' = <<>>
    /\ ret' = <<>> /\ calls' = <<>> /\ overwrote' = {}
    /\ UNCHANGED <<db, registry, issued, destroyed>>

\* list(g) by the host, g the generator of an earlier get_component call:
\* the body of get_component runs now, from its first line to its end or to
\* the KeyError it raises.
list_generator ==
    /\ op' = "list"
    /\ generator # <<>>
    /\ \E r \in get_component(generator[1].component_type) :
          /\ yielded' = [raised |-> r.raised, value |-> r.value,
                          at_call |-> generator[1].index]
          /\ err' = r.raised
    /\ generator' = <<>>
    /\ ret' = <<>> /\ calls' = <<>> /\ overwrote' = {}
    /\ UNCHANGED <<db, registry, issued, destroyed>>

\* ------------------------------------------------------------------ steps

ClearDatabase == clear_database
AddSystem == \E s \in Objects : add_system(s)
RemoveSystem == \E t \in SystemTypes : remove_system(t)
NewEntity == \E cs \in ComponentLists(Components) : new_entity(cs)
RemoveEntity == \E e \in Ids, immediate \in BOOLEAN : remove_entity(e, immediate)
AddComponentToEntity == \E c \in Components, e \in Ids : add_component_to_entity(c, e)
RemoveComponentFromEntity == \E t \in Types, e \in Ids : remove_component_from_entity(t, e)
Process == \E a \in Args : process(a)

\* The Manager under every operation.
Next ==
    \/ ClearDatabase
    \/ AddSystem
    \/ RemoveSystem
    \/ NewEntity
    \/ RemoveEntity
    \/ AddComponentToEntity
    \/ RemoveComponentFromEntity
    \/ Process

Spec == Init /\ [][Next]_vars

\* The entity database: every operation on entities and components with
\* every input, the registry staying as constructed.
NextDatabase ==
    \/ ClearDatabase
    \/ NewEntity
    \/ RemoveEntity
    \/ AddComponentToEntity
    \/ RemoveComponentFromEntity
    \/ Process

SpecDatabase == Init /\ [][NextDatabase]_vars

\* The entity lifecycle: every operation on entities and components, the
\* application using the one component instance <<"A", 1>>.
OneComponent == {<<"A", 1>>}
NewEntityOne == \E cs \in ComponentLists(OneComponent) : new_entity(cs)
AddComponentOne == \E c \in OneComponent, e \in Ids : add_component_to_entity(c, e)
RemoveComponentOne == \E e \in Ids : remove_component_from_entity("A", e)

NextLifecycle ==
    \/ ClearDatabase
    \/ NewEntityOne
    \/ RemoveEntity
    \/ AddComponentOne
    \/ RemoveComponentOne
    \/ Process

SpecLifecycle == Init /\ [][NextLifecycle]_vars

\* The entity lifecycle under a host loop that keeps calling process: a
\* process call that would change anything is eventually made.
SpecLifecycleLoop == Init /\ [][NextLifecycle]_vars /\ WF_vars(Process)

\* The system registry: every operation on systems, with entities that are
\* created empty, marked and destroyed.
NewEntityEmpty == new_entity(<<>>)

NextRegistry ==
    \/ AddSystem
    \/ RemoveSystem
    \/ NewEntityEmpty
    \/ RemoveEntity
    \/ Process

SpecRegistry == Init /\ [][NextRegistry]_vars

\* The component store: entities created and components attached and
\* detached, with every input; a row goes when its last component is
\* detached.
NextAttach ==
    \/ NewEntity
    \/ AddComponentToEntity
    \/ RemoveComponentFromEntity

SpecAttach == Init /\ [][NextAttach]_vars

\* The single-type query: the application creates entities, attaches and
\* detaches the one component instance <<"A", 1>>, calls get_component for
\* its type and consumes the generator later.
GetComponentOne == get_component_call("A")
ListGenerator == list_generator

NextQuery ==
    \/ NewEntityOne
    \/ AddComponentOne
    \/ RemoveComponentOne
    \/ GetComponentOne
    \/ ListGenerator

SpecQuery == Init /\ [][NextQuery]_vars

\* ------------------------------------------------------------------ claims

\* The entity is a member of the type's index set.
InIndex(comps, entity, component_type) ==
    component_type \in DOMAIN comps /\ entity \in comps[component_type]

\* C1: after any sequence of operations, an entity is a member of a type's
\* index set if and only if its table row exists and contains the type, and
\* no index set is empty.
C1_IndexMatchesTable ==
    /\ \A t \in Types, e \in Ids :
          InIndex(components, e, t) <=> RowHas(entities, e, t)
    /\ \A t \in DOMAIN components : components[t] # {}

\* What the four queries return for the entity.
QueriesOf(e) ==
    <<[t \in Types |-> has_component(e, t)],
      [t \in Types |-> get_component_from_entity(t, e)],
      [t \in Types |-> get_component(t)],
      [ts \in Types \X Types |-> get_components(ts)]>>

\* The identifier has no table row and is a member of no index set.
Gone(comps, ents, e) ==
    /\ e \notin DOMAIN ents
    /\ \A t \in Types : ~InIndex(comps, e, t)

\* C2: a deferred remove_entity of a live entity leaves what the queries
\* return unchanged, and the next call to process leaves a marked live
\* entity with no table row and in no index set.
C2_DeferredDestroy ==
    [][/\ \A e \in DOMAIN entities :
             remove_entity(e, FALSE) => QueriesOf(e)' = QueriesOf(e)
       /\ op' = "process" =>
             \A e \in dead_entities \cap DOMAIN entities :
                Gone(components', entities', e)]_vars

\* C3: every call to process with a non-empty pending-deletion set ends its
\* reconciliation with every pending entity out of the table and the
\* pending-deletion set empty, and dispatches to no system before that.
C3_ReconcileClears ==
    [][(op' = "process" /\ dead_entities # {}) =>
          /\ dead_entities' = {}
          /\ \A e \in dead_entities : e \notin DOMAIN entities'
          /\ ~err']_vars

\* C4: every call to process(args) calls process(args) on every system of
\* the registry once, in registration order, whatever the entity table and
\* the pending-deletion set hold.
C4_DispatchAll ==
    [][\A a \in Args :
          process(a) => calls' = [i \in 1..Len(systems) |-> <<systems[i], a>>]]_vars

\* C5: with no clear_database in between, the identifiers new_entity returns
\* are positive and strictly increasing, so none is returned twice, also
\* after its entity was destroyed.
C5_IdsIncrease ==
    /\ \A i \in 1..Len(issued) : issued[i] > 0
    /\ \A i, j \in 1..Len(issued) : i < j => issued[i] < issued[j]
    /\ (ret # <<>> => Len(issued) > 0 /\ ret[1] = issued[Len(issued)])

\* C5 happens: new_entity has just returned an identifier after an entity it
\* had returned before was destroyed.
C5_Witness ==
    /\ ret # <<>>
    /\ Len(issued) >= 2
    /\ issued[1] \in destroyed

\* The registry without its first system of the type; the registry itself
\* when it holds none.
WithoutFirstOfType(syss, system_type) ==
    IF \A i \in 1..Len(syss) : SysTypeOf(syss[i]) # system_type THEN syss
    ELSE LET first == CHOOSE i \in 1..Len(syss) :
                         /\ SysTypeOf(syss[i]) = system_type
                         /\ \A j \in 1..(i - 1) : SysTypeOf(syss[j]) # system_type
         IN [i \in 1..(Len(syss) - 1) |-> IF i < first THEN syss[i] ELSE syss[i + 1]]

\* C6: remove_system removes exactly the first registered system of the
\* type and keeps every other one, later ones of the type included, in
\* order; it changes nothing when no system has the type.
C6_RemovesFirstOnly ==
    [][\A t \in SystemTypes :
          remove_system(t) => systems' = WithoutFirstOfType(systems, t)]_vars

\* C7: has_component never raises; it returns False for an entity without a
\* table row and otherwise True exactly for a member of the type's index set.
C7_HasComponentTotal ==
    \A e \in Ids, t \in Types :
       /\ ~has_component(e, t).raised
       /\ has_component(e, t).value = InIndex(components, e, t)

\* The yielded sequence names each entity that holds both types once and no
\* other entity, each with its two components in the order requested.
ExactlyBoth(y, t1, t2) ==
    /\ {y[i][1] : i \in 1..Len(y)} =
          {e \in Ids : RowHas(entities, e, t1) /\ RowHas(entities, e, t2)}
    /\ \A i, j \in 1..Len(y) : y[i][1] = y[j][1] => i = j
    /\ \A i \in 1..Len(y) :
          y[i][2] = <<entities[y[i][1]][t1], entities[y[i][1]][t2]>>

\* C8: get_components(T1, T2) yields exactly the entities that hold both a
\* T1 and a T2 component, once each, with the components in the order
\* requested, and nothing when a type has no index set.
C8_QueryManyExact ==
    \A t1, t2 \in Types :
       \A y \in get_components(<<t1, t2>>) :
          /\ ExactlyBoth(y, t1, t2)
          /\ (t1 \notin DOMAIN components \/ t2 \notin DOMAIN components) => y = <<>>

\* The step gives the identifier a table row or an index membership it did
\* not have.
Gains(e) ==
    \/ e \notin DOMAIN entities /\ e \in DOMAIN entities'
    \/ \E t \in Types : ~InIndex(components, e, t) /\ InIndex(components', e, t)

\* C9 as stated: once an entity is destroyed, no operation short of
\* clear_database gives its identifier a table row or an index membership
\* again.
C9_DestroyedIsTerminal ==
    [][\A e \in destroyed \cap destroyed' : ~Gains(e)]_vars

\* C9 as amended: once an entity is destroyed, the only operations short of
\* clear_database that give its identifier a table row or an index
\* membership again are add_component_to_entity on that identifier and a
\* new_entity that returns it, which happens only to an identifier above
\* the identifier counter.
C9_DestroyedUntilReadded ==
    [][\A e \in destroyed \cap destroyed' :
          Gains(e) =>
             \/ \E c \in Components : add_component_to_entity(c, e)
             \/ /\ e > next_entity_id
                /\ ret' = <<e>>
                /\ \E cs \in ComponentLists(Components) : new_entity(cs)]_vars

\* C9 happens: add_component_to_entity has just given one destroyed entity
\* a table row again while another destroyed entity stays without a table
\* row and out of every index set.
C9_Witness ==
    /\ op = "add_component_to_entity"
    /\ \E e, f \in destroyed :
          /\ e \in DOMAIN entities
          /\ Gone(components, entities, f)

\* C10: a call that ends with an error leaves the entity table, the index,
\* the pending-deletion set, the identifier counter and the registry as
\* they were before the call.
C10_ErrorChangesNothing ==
    [][err' => UNCHANGED <<db, registry>>]_vars

\* C11: remove_entity raises KeyError for an entity that is not in the
\* entity table, with immediate=True and with the default immediate=False
\* alike.
C11_RemoveUnknownRaises ==
    [][\A e \in Ids, immediate \in BOOLEAN :
          (remove_entity(e, immediate) /\ e \notin DOMAIN entities) => err']_vars

\* C12: attaching a second, different instance of a type the entity already
\* holds leaves exactly one instance of the type: the entity's row holds the
\* second instance, the index is as it was with the entity in the type's
\* set, and every other row and every other type of this row is unchanged.
C12_SecondReplacesFirst ==
    [][\A c \in Components, e \in Ids :
          (add_component_to_entity(c, e) /\ Displaces(entities, c, e))
          => /\ get_component_from_entity(TypeOf(c), e)' = Returned(c)
             /\ e \in components'[TypeOf(c)]
             /\ components' = components
             /\ DOMAIN entities' = DOMAIN entities
             /\ \A f \in DOMAIN entities \ {e} : entities'[f] = entities[f]
             /\ DOMAIN entities'[e] = DOMAIN entities[e]
             /\ \A t \in DOMAIN entities[e] \ {TypeOf(c)} :
                   entities'[e][t] = entities[e][t]]_vars

\* A second instance has displaced the first on an entity that also holds
\* a component of another type, while another entity has a row.
C12_Witness ==
    /\ op = "add_component_to_entity"
    /\ overwrote = {"instance"}
    /\ \E e, f \in DOMAIN entities :
          /\ e # f
          /\ DOMAIN entities[e] = {"A", "B"}
          /\ entities[e]["A"] = <<"A", 2>>

\* C13: after remove_component_from_entity(T, E) has returned normally,
\* get_component_from_entity(T, E) raises KeyError, whether E still holds
\* other components or T was its last.
C13_RemovedComponentIsGone ==
    [][\A t \in Types, e \in Ids :
          (remove_component_from_entity(t, e) /\ ~err')
          => get_component_from_entity(t, e)'.raised]_vars

\* A component has been removed from an entity that keeps its row with a
\* component of the other type.
C13_Witness ==
    /\ op = "remove_component_from_entity"
    /\ ~err
    /\ overwrote = {"instance"}
    /\ \E e \in DOMAIN entities : DOMAIN entities[e] \in {{"A"}, {"B"}}

\* A component has been removed from an entity that held no other, and the
\* row has gone with it.
C13_LastRemoved ==
    /\ op = "remove_component_from_entity"
    /\ ~err
    /\ overwrote = {"instance", "row"}

\* C14: clear_database, from any state, leaves the entity table, the
\* component index and the pending set empty and the counter at its initial
\* value; the next new_entity returns 1, and a process call that follows,
\* directly or after that new_entity, raises nothing and destroys nothing.
C14_ClearResets ==
    [][/\ op' = "clear_database"
          => /\ entities' = EmptyDict
             /\ components' = EmptyDict
             /\ dead_entities' = {}
             /\ next_entity_id' = 0
       /\ (op = "clear_database" /\ op' = "new_entity")
          => /\ ret' = <<1>>
             /\ dead_entities' = {}
       /\ (/\ op' = "process"
           /\ \/ op = "clear_database"
              \/ op = "new_entity" /\ ret = <<1>> /\ dead_entities = {})
          => /\ ~err'
             /\ destroyed' = destroyed
             /\ UNCHANGED <<components, entities, dead_entities>>]_vars

\* clear_database has just emptied a database in which the counter had
\* advanced and the table, the index and the pending set held something.
C14_Witness ==
    /\ op = "clear_database"
    /\ overwrote = Fields

\* C15: while the host keeps calling process, every entity marked for
\* deferred deletion eventually leaves the pending set and has no row,
\* whatever other operations are interleaved.
C15_PendingEventuallyDestroyed ==
    \A e \in Ids :
        (e \in dead_entities) ~> (e \notin dead_entities /\ e \notin DOMAIN entities)

\* C16: remove_component_from_entity(T, E) raises KeyError exactly when T
\* has no index set or E holds no component of type T, and then changes
\* nothing; otherwise it takes E out of T's index set, deleting the set when
\* that empties it, takes T out of E's row, deleting the row when that
\* empties it, and leaves everything else as it was.
C16_RemoveComponentExact ==
    [][\A t \in Types, e \in Ids :
          remove_component_from_entity(t, e)
          => /\ err' <=> (t \notin DOMAIN components \/ ~RowHas(entities, e, t))
             /\ err' => UNCHANGED <<db, registry>>
             /\ ~err'
                => /\ DOMAIN components' =
                         IF components[t] = {e} THEN DOMAIN components \ {t}
                         ELSE DOMAIN components
                   /\ \A u \in DOMAIN components' :
                         components'[u] =
                            IF u = t THEN components[t] \ {e} ELSE components[u]
                   /\ DOMAIN entities' =
                         IF DOMAIN entities[e] = {t} THEN DOMAIN entities \ {e}
                         ELSE DOMAIN entities
                   /\ \A f \in DOMAIN entities' :
                         entities'[f] =
                            IF f = e THEN Del(entities[e], t) ELSE entities[f]
                   /\ UNCHANGED <<next_entity_id, dead_entities, registry>>]_vars

\* The entities of the pairs in a yielded sequence.
YieldedEntities(y) == {y.value[i][1] : i \in 1..Len(y.value)}

\* C17: get_component(T) yields exactly one (entity, component) pair for
\* each entity that was in T's index set when get_component was called, the
\* component being that entity's T component, and nothing when T had no
\* index set; operations between the call and the consumption of the
\* sequence do not change what is yielded.
C17_YieldsCallTimeIndex ==
    [][list_generator
       => /\ ~yielded'.raised
          /\ YieldedEntities(yielded') = generator[1].index
          /\ Len(yielded'.value) = Cardinality(generator[1].index)
          /\ \A i \in 1..Len(yielded'.value) :
                /\ RowHas(entities, yielded'.value[i][1], generator[1].component_type)
                /\ yielded'.value[i][2] =
                      entities[yielded'.value[i][1]][generator[1].component_type]]_vars


\* C17, amended: a generator of get_component(T) consumed in one go yields
\* one (entity, component) pair for each entity in T's index set at the time
\* it is consumed, the component being the entity's T component at that
\* time, and nothing when T then has no index set; it raises KeyError at the
\* first index member whose row holds no T, after the pairs of the members
\* iterated before it.
C17_YieldsConsumptionTimeIndex ==
    [][list_generator
       => LET t == generator[1].component_type
              index == IF t \in DOMAIN components THEN components[t] ELSE {}
              stale == {e \in index : ~RowHas(entities, e, t)}
          IN /\ yielded'.raised <=> stale # {}
             /\ YieldedEntities(yielded') \subseteq index \ stale
             /\ Len(yielded'.value) = Cardinality(YieldedEntities(yielded'))
             /\ ~yielded'.raised => YieldedEntities(yielded') = index
             /\ \A i \in 1..Len(yielded'.value) :
                   yielded'.value[i][2] = entities[yielded'.value[i][1]][t]]_vars

\* A generator has yielded pairs for entities other than those in the index
\* set when it was made.
C17_Witness ==
    /\ op = "list"
    /\ ~yielded.raised
    /\ yielded.value # <<>>
    /\ YieldedEntities(yielded) # yielded.at_call

\* A generator has raised KeyError after yielding a pair.
C17_RaisedMidway ==
    /\ op = "list"
    /\ yielded.raised
    /\ yielded.value # <<>>

\* C18: in every reachable state every entity in the pending-deletion set
\* has a row in the entity table, so the reconciliation of process never
\* fails with KeyError, whatever deferred and immediate remove_entity calls
\* and remove_component_from_entity calls were interleaved.
C18_PendingHaveRows ==
    [][/\ \A e \in dead_entities' : e \in DOMAIN entities'
       /\ op' = "process" => ~err']_vars

\* C19: after any sequence of add_system and remove_system calls, adding
\* the same instance more than once included, every system instance in the
\* registry has its Manager back-reference set to this Manager and every
\* instance not in the registry has it cleared to None.
C19_BackReferences ==
    \A s \in SystemObjects :
        IF \E i \in 1..Len(systems) : systems[i] = s
        THEN sysManager[s] = Self
        ELSE sysManager[s] = None

\* C20: new_entity returns a fresh identifier: just before the call the
\* identifier it returns had no table row and was in no index set, and the
\* call changes the components of no other entity.
C20_NewEntityIsFresh ==
    [][op' = "new_entity"
       => LET id == ret'[1]
          IN /\ id \notin DOMAIN entities
             /\ \A t \in Types : ~InIndex(components, id, t)
             /\ \A f \in Ids \ {id} :
                   /\ f \in DOMAIN entities' <=> f \in DOMAIN entities
                   /\ f \in DOMAIN entities => entities'[f] = entities[f]
                   /\ \A t \in Types :
                         InIndex(components', f, t) <=> InIndex(components, f, t)]_vars

====
